---- MODULE Spec2Model ----
(***************************************************************************)
(* kerchief: submitting course work to Canvas from the command line.       *)
(*                                                                         *)
(* Five specifications share the variables of this module:                 *)
(*   Spec        Identifier::try_match_among, which resolves a partial     *)
(*               identifier of the configuration (an optional name and an  *)
(*               optional id) against a list of candidate (id, name)       *)
(*               pairs; modelled branch by branch as operators.            *)
(*   SpecRoot    the start of the submit command: kerchief.toml is opened  *)
(*               and the project root is found.                            *)
(*   SpecStage   stage_includes: the include list of an assignment is      *)
(*               resolved in the project tree and written to the scratch   *)
(*               directory.                                                *)
(*   SpecWall    any sequence of calls on a Wall, the configuration with   *)
(*               its two cells for the lists fetched from the API.         *)
(*   SpecSubmit  one run of the submit command: staging, the prompt, the   *)
(*               uploads and the checkout.                                 *)
(***************************************************************************)
EXTENDS Integers, Sequences, FiniteSets, TLC

\* ---------------------------------------------------------------- bounds
\* Longest candidate list drawn.
MaxLen == 3
\* Candidate and user ids range over 1..MaxId.
MaxId == 2
\* Number of times the function is called on the same inputs.
MaxCalls == 2

\* Names: two that differ only by case, and an unrelated one.
Names == {"A", "a", "B"}
Ids == 1..MaxId

\* ------------------------------------------------------------ value types
\* Option<T>: None is the empty sequence, Some(v) the one-element sequence.
None == <<>>
Some(v) == <<v>>
is_some(o) == Len(o) = 1
unwrap(o) == o[1]

\* model::Identifier { id: u64, name: &str }
Identifier == [id : Ids, name : Names]

\* config::Identifier { name: Option<String>, id: Option<u64> }
ConfigIdentifier == [name : {None} \cup {Some(n) : n \in Names},
                     id : {None} \cup {Some(i) : i \in Ids}]

\* All candidate lists of length 0..MaxLen (duplicate names and duplicate ids
\* included: the function accepts any Vec).
CandidateLists == UNION {[1..n -> Identifier] : n \in 0..MaxLen}

\* config::Identifier::read: which of the two fields are present.
read(partial) ==
    IF is_some(partial.name) /\ is_some(partial.id)
    THEN [tag |-> "NameAndId", name |-> unwrap(partial.name), id |-> unwrap(partial.id)]
    ELSE IF is_some(partial.name)
    THEN [tag |-> "NameOnly", name |-> unwrap(partial.name)]
    ELSE IF is_some(partial.id)
    THEN [tag |-> "IdOnly", id |-> unwrap(partial.id)]
    ELSE [tag |-> "None"]

\* Identifier::to_owned: builds an OwnedIdentifier from the id and a copy of
\* the name.
to_owned(ident) == [id |-> ident.id, name |-> ident.name]

\* .into_iter().map(Self::to_owned).collect()
map_to_owned(v) == [i \in 1..Len(v) |-> to_owned(v[i])]

\* Vec::contains under the derived PartialEq (id and name both compared).
contains(v, x) == \E i \in 1..Len(v) : v[i].id = x.id /\ v[i].name = x.name

\* Result<Identifier, IdentifierErr>
Ok(ident) == [kind |-> "Ok", value |-> ident]

\* ------------------------------------------------------ try_match_among
\* NameAndId branch: both filters are built in one pass over the list.
id_matches_of(matches, id) == SelectSeq(matches, LAMBDA ident : ident.id = id)
name_matches_of(matches, name) == SelectSeq(matches, LAMBDA ident : ident.name = name)

\* Variants of the NameAndId branch with one slip each.
\* The name check on the id match is dropped: the id wins silently.
match_name_and_id_IdWins(matches, name, id) ==
    LET id_matches == id_matches_of(matches, id)
        name_matches == name_matches_of(matches, name)
        user == to_owned([id |-> id, name |-> name])
    IN  IF Len(id_matches) > 0
        THEN Ok(id_matches[1])
        ELSE IF Len(name_matches) = 0
             THEN [kind |-> "NoSuchIdentifier",
                   user_provided |-> user,
                   alternatives |-> map_to_owned(matches)]
             ELSE [kind |-> "IdConflict",
                   user_provided |-> user,
                   match_name_not_id |-> map_to_owned(name_matches)]

\* With no id match, a single name match is returned (name-only fallback).
match_name_and_id_NameFallback(matches, name, id) ==
    LET id_matches == id_matches_of(matches, id)
        name_matches == name_matches_of(matches, name)
        user == to_owned([id |-> id, name |-> name])
    IN  IF Len(id_matches) > 0
        THEN IF contains(name_matches, id_matches[1])
             THEN Ok(id_matches[1])
             ELSE [kind |-> "NameConflict",
                   user_provided |-> user,
                   match_id_not_name |-> map_to_owned(id_matches)]
        ELSE IF Len(name_matches) = 0
             THEN [kind |-> "NoSuchIdentifier",
                   user_provided |-> user,
                   alternatives |-> map_to_owned(matches)]
             ELSE IF Len(name_matches) = 1
                  THEN Ok(name_matches[1])
                  ELSE [kind |-> "IdConflict",
                        user_provided |-> user,
                        match_name_not_id |-> map_to_owned(name_matches)]

\* On success the first name match is returned instead of the id match.
match_name_and_id_ReturnsNameMatch(matches, name, id) ==
    LET id_matches == id_matches_of(matches, id)
        name_matches == name_matches_of(matches, name)
        user == to_owned([id |-> id, name |-> name])
    IN  IF Len(id_matches) > 0
        THEN IF contains(name_matches, id_matches[1])
             THEN Ok(name_matches[1])
             ELSE [kind |-> "NameConflict",
                   user_provided |-> user,
                   match_id_not_name |-> map_to_owned(id_matches)]
        ELSE IF Len(name_matches) = 0
             THEN [kind |-> "NoSuchIdentifier",
                   user_provided |-> user,
                   alternatives |-> map_to_owned(matches)]
             ELSE [kind |-> "IdConflict",
                   user_provided |-> user,
                   match_name_not_id |-> map_to_owned(name_matches)]

\* The two conflict variants are exchanged.
match_name_and_id_ConflictsSwapped(matches, name, id) ==
    LET id_matches == id_matches_of(matches, id)
        name_matches == name_matches_of(matches, name)
        user == to_owned([id |-> id, name |-> name])
    IN  IF Len(id_matches) > 0
        THEN IF contains(name_matches, id_matches[1])
             THEN Ok(id_matches[1])
             ELSE [kind |-> "IdConflict",
                   user_provided |-> user,
                   match_name_not_id |-> map_to_owned(id_matches)]
        ELSE IF Len(name_matches) = 0
             THEN [kind |-> "NoSuchIdentifier",
                   user_provided |-> user,
                   alternatives |-> map_to_owned(matches)]
             ELSE [kind |-> "NameConflict",
                   user_provided |-> user,
                   match_id_not_name |-> map_to_owned(name_matches)]

\* NameConflict lists only the id matches whose name differs.
match_name_and_id_OnlyDiffering(matches, name, id) ==
    LET id_matches == id_matches_of(matches, id)
        name_matches == name_matches_of(matches, name)
        user == to_owned([id |-> id, name |-> name])
    IN  IF Len(id_matches) > 0
        THEN IF contains(name_matches, id_matches[1])
             THEN Ok(id_matches[1])
             ELSE [kind |-> "NameConflict",
                   user_provided |-> user,
                   match_id_not_name |->
                       map_to_owned(SelectSeq(id_matches, LAMBDA m : m.name # name))]
        ELSE IF Len(name_matches) = 0
             THEN [kind |-> "NoSuchIdentifier",
                   user_provided |-> user,
                   alternatives |-> map_to_owned(matches)]
             ELSE [kind |-> "IdConflict",
                   user_provided |-> user,
                   match_name_not_id |-> map_to_owned(name_matches)]

\* Variant: among several candidates with the given id, one that has the
\* given name is preferred to the first.
match_name_and_id_AnyDuplicate(matches, name, id) ==
    LET id_matches == id_matches_of(matches, id)
        name_matches == name_matches_of(matches, name)
        both == SelectSeq(id_matches, LAMBDA ident : ident.name = name)
        user == to_owned([id |-> id, name |-> name])
    IN  IF Len(id_matches) > 0
        THEN IF Len(both) > 0
             THEN Ok(both[1])
             ELSE [kind |-> "NameConflict",
                   user_provided |-> user,
                   match_id_not_name |-> map_to_owned(id_matches)]
        ELSE IF Len(name_matches) = 0
             THEN [kind |-> "NoSuchIdentifier",
                   user_provided |-> user,
                   alternatives |-> map_to_owned(matches)]
             ELSE [kind |-> "IdConflict",
                   user_provided |-> user,
                   match_name_not_id |-> map_to_owned(name_matches)]

match_name_and_id(matches, name, id) ==
    LET id_matches == id_matches_of(matches, id)
        name_matches == name_matches_of(matches, name)
        user == to_owned([id |-> id, name |-> name])
    IN  IF Len(id_matches) > 0
        THEN IF contains(name_matches, id_matches[1])
             THEN Ok(id_matches[1])
             ELSE [kind |-> "NameConflict",
                   user_provided |-> user,
                   match_id_not_name |-> map_to_owned(id_matches)]
        ELSE IF Len(name_matches) = 0
             THEN [kind |-> "NoSuchIdentifier",
                   user_provided |-> user,
                   alternatives |-> map_to_owned(matches)]
             ELSE [kind |-> "IdConflict",
                   user_provided |-> user,
                   match_name_not_id |-> map_to_owned(name_matches)]

\* Variant of the IdOnly branch: the filter is forgotten, the first candidate
\* of a non-empty list is returned.
match_id_only_NoFilter(matches, id) ==
    IF Len(matches) > 0
    THEN Ok(matches[1])
    ELSE [kind |-> "NoSuchId",
          user_provided |-> id,
          alternatives |-> map_to_owned(matches)]

\* IdOnly branch: the first element of the id filter, if any.
match_id_only(matches, id) ==
    LET id_matches == id_matches_of(matches, id)
    IN  IF Len(id_matches) > 0
        THEN Ok(id_matches[1])
        ELSE [kind |-> "NoSuchId",
              user_provided |-> id,
              alternatives |-> map_to_owned(matches)]

\* Variants of the NameOnly branch.
\* ASCII lower-casing, for a comparison that ignores case.
to_lowercase(name) == IF name = "A" THEN "a" ELSE IF name = "B" THEN "b" ELSE name

\* Names are compared ignoring case.
match_name_only_IgnoreCase(matches, name) ==
    LET name_matches ==
            SelectSeq(matches, LAMBDA ident : to_lowercase(ident.name) = to_lowercase(name))
    IN  IF Len(name_matches) > 0
        THEN IF Len(name_matches) = 1
             THEN Ok(name_matches[1])
             ELSE [kind |-> "UnderSpecified",
                   user_provided |-> name,
                   alternatives |-> map_to_owned(name_matches)]
        ELSE [kind |-> "NoSuchName",
              user_provided |-> name,
              alternatives |-> map_to_owned(matches)]

\* The first name match is indexed before the emptiness test: an empty filter
\* panics instead of returning a value.
match_name_only_IndexFirst(matches, name) ==
    LET name_matches == name_matches_of(matches, name)
    IN  IF Len(name_matches) = 0
        THEN [kind |-> "Panic"]
        ELSE IF Len(name_matches) = 1
             THEN Ok(name_matches[1])
             ELSE [kind |-> "UnderSpecified",
                   user_provided |-> name,
                   alternatives |-> map_to_owned(name_matches)]

\* The length test is dropped: the first of several name matches is returned.
match_name_only_FirstWins(matches, name) ==
    LET name_matches == name_matches_of(matches, name)
    IN  IF Len(name_matches) > 0
        THEN Ok(name_matches[1])
        ELSE [kind |-> "NoSuchName",
              user_provided |-> name,
              alternatives |-> map_to_owned(matches)]

\* NameOnly branch.
match_name_only(matches, name) ==
    LET name_matches == name_matches_of(matches, name)
    IN  IF Len(name_matches) > 0
        THEN IF Len(name_matches) = 1
             THEN Ok(name_matches[1])
             ELSE [kind |-> "UnderSpecified",
                   user_provided |-> name,
                   alternatives |-> map_to_owned(name_matches)]
        ELSE [kind |-> "NoSuchName",
              user_provided |-> name,
              alternatives |-> map_to_owned(matches)]

\* Variant of the None branch: a sole candidate is picked by default.
match_none_DefaultsToSole(matches) ==
    IF Len(matches) = 1
    THEN Ok(matches[1])
    ELSE [kind |-> "NotSpecified", alternatives |-> map_to_owned(matches)]

\* None branch.
match_none(matches) ==
    [kind |-> "NotSpecified", alternatives |-> map_to_owned(matches)]

try_match_among(matches, partial) ==
    LET r == read(partial)
    IN  CASE r.tag = "NameAndId" -> match_name_and_id(matches, r.name, r.id)
          [] r.tag = "IdOnly" -> match_id_only(matches, r.id)
          [] r.tag = "NameOnly" -> match_name_only(matches, r.name)
          [] r.tag = "None" -> match_none(matches)

\* ------------------------------------------------- paths and project tree
\* Length of the content of the configured file a.txt.
MaxContent == 2
\* Longest include list of an assignment.
MaxEntries == 2

\* A file name as std::path reads it: a stem and an optional extension.
FileName(stem, ext) == [stem |-> stem, ext |-> ext]

\* The name as it is stored in a directory: stem, or stem "." extension.
render(name) ==
    IF is_some(name.ext) THEN name.stem \o "." \o unwrap(name.ext) ELSE name.stem

\* A path: absolute or relative, and its components.
Path(abs, comps) == [abs |-> abs, comps |-> comps]

\* PathBuf::new()
EmptyPath == Path(FALSE, <<>>)

\* PathBuf::push / Path::join: an absolute argument replaces the buffer.
push(base, p) == IF p.abs THEN p ELSE Path(base.abs, base.comps \o p.comps)

\* Path::file_name: the last component.
file_name(p) == p.comps[Len(p.comps)]

\* Path::with_extension: the last component keeps its stem and gets the given
\* text as extension (a "." is put between the two).
with_extension(p, ext) ==
    Path(p.abs, [p.comps EXCEPT ![Len(p.comps)] = FileName(file_name(p).stem, Some(ext))])

\* Path::strip_prefix, for a path that starts with the prefix.
strip_prefix(p, prefix) ==
    Path(FALSE, SubSeq(p.comps, Len(prefix.comps) + 1, Len(p.comps)))

\* Path::to_str of a relative path: components joined by "/".
RECURSIVE join_str(_)
join_str(comps) ==
    IF Len(comps) = 1 THEN render(comps[1])
    ELSE render(comps[1]) \o "/" \o join_str(Tail(comps))
to_str(p) == join_str(p.comps)

\* The names of the project tree.
N_proj == FileName("proj", None)
N_a == FileName("a", Some("txt"))
N_hw == FileName("hw", None)
N_f == FileName("f", Some("txt"))
N_ln == FileName("ln", None)
N_sub == FileName("sub", None)
N_g == FileName("g", Some("txt"))
N_nope == FileName("nope", Some("txt"))

\* The directory the command is run from, holding kerchief.toml.
ProjectRoot == Path(TRUE, <<N_proj>>)
P_a == push(ProjectRoot, Path(FALSE, <<N_a>>))
P_hw == push(ProjectRoot, Path(FALSE, <<N_hw>>))
P_f == push(P_hw, Path(FALSE, <<N_f>>))
P_ln == push(P_hw, Path(FALSE, <<N_ln>>))
P_sub == push(P_hw, Path(FALSE, <<N_sub>>))
P_g == push(P_sub, Path(FALSE, <<N_g>>))

\* Nodes of the file system.
Absent == [kind |-> "absent"]
DirNode == [kind |-> "dir"]
FileNode(data) == [kind |-> "file", data |-> data]
SymlinkNode(target) == [kind |-> "symlink", target |-> target]

\* The bytes of the three regular files (pairwise different).
Data_a == [i \in 1..MaxContent |-> i]
Data_f == <<10>>
Data_g == <<20, 21>>

\* A project tree: a.txt, and the directory hw with a file, a symbolic link
\* to a.txt, and a sub-directory with a file of its own.
TreeOf(a, hw, f, ln, sub, g) ==
    (Path(TRUE, <<>>) :> DirNode) @@ (ProjectRoot :> DirNode)
    @@ (P_a :> IF a THEN FileNode(Data_a) ELSE Absent)
    @@ (P_hw :> IF hw THEN DirNode ELSE Absent)
    @@ (P_f :> IF f THEN FileNode(Data_f) ELSE Absent)
    @@ (P_ln :> IF ln THEN SymlinkNode(P_a) ELSE Absent)
    @@ (P_sub :> IF sub THEN DirNode ELSE Absent)
    @@ (P_g :> IF g THEN FileNode(Data_g) ELSE Absent)

Trees ==
    {TreeOf(a, hw, f, ln, sub, g) :
        <<a, hw, f, ln, sub, g>> \in
            {t \in BOOLEAN \X BOOLEAN \X BOOLEAN \X BOOLEAN \X BOOLEAN \X BOOLEAN :
                /\ (t[3] \/ t[4] \/ t[5]) => t[2]
                /\ t[6] => t[5]}}

FullTree == TreeOf(TRUE, TRUE, TRUE, TRUE, TRUE, TRUE)

\* symlink_metadata: the node at a path, links not followed.  A relative path
\* is taken from the current directory.
lstat(tree, dir, p) ==
    LET q == push(dir, p)
    IN  IF q \in DOMAIN tree THEN tree[q] ELSE Absent

\* metadata: the node at a path, a symbolic link followed to its target.
stat(tree, dir, p) ==
    LET n == lstat(tree, dir, p)
    IN  IF n.kind = "symlink" THEN lstat(tree, dir, n.target) ELSE n

\* Path::is_file, Path::is_dir
is_file(tree, dir, p) == stat(tree, dir, p).kind = "file"
is_dir(tree, dir, p) == stat(tree, dir, p).kind = "dir"

\* fs::read / io::copy from a file: all of its bytes.
read_file(tree, dir, p) == stat(tree, dir, p).data

\* Result<IncludePath, IncludeError>
IncludeFile(p) == [kind |-> "File", path |-> p]
IncludeDir(p) == [kind |-> "Dir", path |-> p]
NotPresent(p) == [kind |-> "NotPresent", path |-> p]

\* Variant: the path is always pushed onto the root, absolute or not.
absolute_of_AlwaysUnderRoot(root_dir, p) ==
    Path(root_dir.abs, root_dir.comps \o p.comps)

\* The path that is checked: the root is pushed only for a relative path.
absolute_of(root_dir, p) ==
    LET with_root == IF ~p.abs THEN push(EmptyPath, root_dir) ELSE EmptyPath
    IN  push(with_root, p)

\* IncludePath::try_from_root; the file system is read from directory dir.
try_from_root(tree, dir, root_dir, p) ==
    LET absolute == absolute_of(root_dir, p)
    IN  IF is_file(tree, dir, absolute) THEN IncludeFile(p)
        ELSE IF is_dir(tree, dir, absolute) THEN IncludeDir(p)
        ELSE NotPresent(absolute)

\* find_root: "." made canonical, that is the current directory.
find_root(dir) == [kind |-> "Ok", value |-> dir]

\* FileOption::try_from
FileOption_try_from(string) ==
    IF string = "zip" THEN [kind |-> "Ok", value |-> "Zip"]
    ELSE [kind |-> "Unexpected", value |-> string]

\* ----------------------------------------------------------------- staging
\* An include entry of the configuration: a path and its option strings
\* (config::Path::path, config::Path::options).
OptionStrings == {"zip", "Zip"}
IncludePaths == {Path(FALSE, <<N_a>>), P_hw, Path(FALSE, <<N_nope>>)}
IncludeEntry == [path : IncludePaths, options : SUBSET OptionStrings]
IncludeLists == UNION {[1..n -> IncludeEntry] : n \in 0..MaxEntries}

\* opts.into_iter().map(FileOption::try_from).collect()
parse_options(options) == {FileOption_try_from(string) : string \in options}

\* Variant: one unrecognized option discards the whole option set.
flatten_options_AllOrNothing(results) ==
    IF \E r \in results : r.kind # "Ok" THEN {}
    ELSE {r.value : r \in results}

\* opts.into_iter().flatten().collect(): the options that parsed.
flatten_options(results) == {r.value : r \in {x \in results : x.kind = "Ok"}}

\* What lies in the scratch directory: a copied file or a zip archive, the
\* latter as the set of its entries.
PlainFile(data) == [type |-> "file", data |-> data]
Archive(entries) == [type |-> "zip", entries |-> entries]
FileEntry(name, data) == [name |-> name, kind |-> "file", data |-> data]
DirEntry(name) == [name |-> name, kind |-> "dir", data |-> <<>>]

\* io::Write::write may take only a part of the buffer: the counts it can
\* return for a buffer of the given length.
write_counts(len) == IF len = 0 THEN {0} ELSE 1..len

\* Variant: the archive is named by the plain file name.
stage_file_copy_StemOnly(tree, dir, file_path) ==
    {file_name(file_path).stem :> PlainFile(read_file(tree, dir, file_path))}

\* File without the zip option: a copy under the file name.
stage_file_copy(tree, dir, file_path) ==
    {render(file_name(file_path)) :> PlainFile(read_file(tree, dir, file_path))}

\* File with the zip option: an archive with one entry, filled by a single
\* write call.
stage_file_zip(tree, dir, file_path) ==
    LET name == render(file_name(file_path))
        target == render(file_name(with_extension(Path(FALSE, <<file_name(file_path)>>), ".zip")))
        file == read_file(tree, dir, file_path)
    IN  {target :> Archive({FileEntry(name, SubSeq(file, 1, n))}) :
            n \in write_counts(Len(file))}

\* WalkDir::new(dir_path).min_depth(1): the paths below the directory, links
\* not followed, each given as dir_path joined with the relative part.
walk(tree, dir, dir_path) ==
    LET base == push(dir, dir_path)
        below == {q \in DOMAIN tree :
                    /\ Len(q.comps) > Len(base.comps)
                    /\ SubSeq(q.comps, 1, Len(base.comps)) = base.comps
                    /\ tree[q].kind # "absent"}
    IN  {push(dir_path, strip_prefix(q, base)) : q \in below}

\* DirEntry::file_type (links not followed).
file_type(tree, dir, entry) == lstat(tree, dir, entry).kind

\* filter_entry(|e| e.file_type().is_file()): an entry is yielded when it is
\* a regular file and so is every entry between it and the walked directory
\* (a directory fails the predicate and is not descended into).
filter_entry(tree, dir, dir_path) ==
    {e \in walk(tree, dir, dir_path) :
        \A k \in (Len(dir_path.comps) + 1)..Len(e.comps) :
            file_type(tree, dir, Path(e.abs, SubSeq(e.comps, 1, k))) = "file"}

\* Variant: archive entries keep the walked path, the prefix is not stripped.
stage_dir_zip_NoStrip(tree, dir, dir_path) ==
    LET target == render(file_name(with_extension(dir_path, "zip")))
        entries == walk(tree, dir, dir_path)
    IN  {target :> Archive(
            {DirEntry(to_str(e)) :
                e \in {x \in entries : file_type(tree, dir, x) = "dir"}}
            \cup
            {FileEntry(to_str(e), read_file(tree, dir, e)) :
                e \in {x \in entries : file_type(tree, dir, x) = "file"}})}

\* Directory with the zip option: one archive, a directory entry for each
\* directory met and a file entry (written with write_all) for each regular
\* file; anything else is passed over.
stage_dir_zip(tree, dir, dir_path) ==
    LET target == render(file_name(with_extension(dir_path, "zip")))
        entries == walk(tree, dir, dir_path)
    IN  {target :> Archive(
            {DirEntry(to_str(strip_prefix(e, dir_path))) :
                e \in {x \in entries : file_type(tree, dir, x) = "dir"}}
            \cup
            {FileEntry(to_str(strip_prefix(e, dir_path)), read_file(tree, dir, e)) :
                e \in {x \in entries : file_type(tree, dir, x) = "file"}})}

\* Overlay of the files written by a copy loop (no two of them share a name
\* in the project tree).
copies(tree, dir, entries) ==
    [name \in {render(file_name(e)) : e \in entries} |->
        PlainFile(read_file(tree, dir,
            CHOOSE e \in entries : render(file_name(e)) = name))]

\* Directory without the zip option: each entry the filtered walk yields is
\* copied under its file name.
stage_dir_copy(tree, dir, dir_path) ==
    {copies(tree, dir, filter_entry(tree, dir, dir_path))}

\* apply_include_transforms: the sets of files it can leave written.
apply_include_transforms(tree, dir, include, opts) ==
    IF include.kind = "File"
    THEN IF "Zip" \in opts
         THEN stage_file_zip(tree, dir, include.path)
         ELSE stage_file_copy(tree, dir, include.path)
    ELSE IF "Zip" \in opts
         THEN stage_dir_zip(tree, dir, include.path)
         ELSE stage_dir_copy(tree, dir, include.path)

\* Variant: the loop returns at the first entry that did not resolve.
stage_decision_AbortOnError(p) ==
    IF p.kind \in {"File", "Dir"} THEN "apply" ELSE "abort"

\* The body of the loop of stage_includes: `if let Ok(include) = p`.
stage_decision(p) ==
    IF p.kind \in {"File", "Dir"} THEN "apply" ELSE "skip"

\* Variant: the directory is created if missing and never emptied.
reset_scratch_KeepFiles(s) == [exists |-> TRUE, files |-> s.files]

\* fs::remove_dir_all(&temp) followed by fs::create_dir_all(&temp).
reset_scratch(s) == [exists |-> TRUE, files |-> <<>>]

\* -------------------------------------------------------------------- Wall
\* The number of accessor calls made on one Wall.
MaxAccess == 3

\* The assignment keys a caller may pass; the configuration holds some of them.
Keys == {"1", "2"}

\* cfg::Identifier::is_none, as written: the name is tested twice.
is_none(ident) == (~is_some(ident.name)) /\ (~is_some(ident.name))

\* cfg::FetchError::NoSuchAssignmentKey
NoSuchAssignmentKey(key) == [kind |-> "NoSuchAssignmentKey", key |-> key]

\* cfg::Config::assignment: the entry of the key, or the error.
Config_assignment(user_cfg, key) ==
    IF key \in DOMAIN user_cfg.assignment
    THEN Ok(user_cfg.assignment[key])
    ELSE NoSuchAssignmentKey(key)

\* canvas::Error::Reqwest: the request failed (network, status or body).
Reqwest == [kind |-> "Reqwest"]

\* One request on the wire with the answer it got.
Request(kind, args, answer) == [kind |-> kind, args |-> args, answer |-> answer]

\* Lists the API answers with: canvas::get_courses, canvas::get_assignments.
CourseAnswers ==
    {<<[id |-> 1, name |-> "A"]>>,
     <<[id |-> 1, name |-> "A"], [id |-> 2, name |-> "B"]>>}
AssignmentAnswers ==
    {<<[id |-> 2, name |-> "B"]>>,
     <<[id |-> 1, name |-> "A"], [id |-> 2, name |-> "A"]>>}

\* model::Wall::new
Wall_new(user_cfg) == [user_cfg |-> user_cfg, courses |-> None, assignments |-> None]

\* The outcome of a method of Wall: the Wall afterwards (its cells may have
\* been filled), the requests sent, and the value returned.  A method that
\* asks the API has one outcome for each answer the API may give.
Step(wall, sent, result) == [wall |-> wall, sent |-> sent, result |-> result]

\* Variant: the cell is never consulted, every call asks the API.
get_courses_NoCache(wall) ==
    {Step([wall EXCEPT !.courses = Some(l)], <<Request("courses", <<>>, Ok(l))>>, Ok(l)) :
        l \in CourseAnswers}
        \cup {Step(wall, <<Request("courses", <<>>, Reqwest)>>, Reqwest)}

\* Wall::get_courses: courses.get_or_try_init(|| canvas::get_courses(..))?
get_courses(wall) ==
    IF is_some(wall.courses)
    THEN {Step(wall, <<>>, Ok(unwrap(wall.courses)))}
    ELSE {Step([wall EXCEPT !.courses = Some(l)],
               <<Request("courses", <<>>, Ok(l))>>, Ok(l)) : l \in CourseAnswers}
             \cup {Step(wall, <<Request("courses", <<>>, Reqwest)>>, Reqwest)}

\* Wall::get_course_id
get_course_id(wall) ==
    {IF c.result.kind # "Ok"
     THEN c
     ELSE LET m == try_match_among(c.result.value, wall.user_cfg.course)
          IN  IF m.kind = "Ok"
              THEN Step(c.wall, c.sent, Ok(m.value.id))
              ELSE Step(c.wall, c.sent, m) : c \in get_courses(wall)}

\* canvas::get_assignments, called by a Wall that has just been through
\* step c: the request for the assignments of a course and its answers.
request_assignments(c, course_id) ==
    {Step([c.wall EXCEPT !.assignments = Some(l)],
          Append(c.sent, Request("assignments", <<course_id>>, Ok(l))), Ok(l)) :
        l \in AssignmentAnswers}
        \cup {Step(c.wall, Append(c.sent, Request("assignments", <<course_id>>, Reqwest)),
                   Reqwest)}

\* Variant: the assignment list is requested before the course is resolved,
\* for the first course the server knows.
get_assignments_CourseUnchecked(wall) ==
    IF is_some(wall.assignments)
    THEN {Step(wall, <<>>, Ok(unwrap(wall.assignments)))}
    ELSE request_assignments(Step(wall, <<>>, Ok(1)), 1)

\* Wall::get_assignments: the closure of get_or_try_init resolves the course
\* first; its error leaves the cell empty.
get_assignments(wall) ==
    IF is_some(wall.assignments)
    THEN {Step(wall, <<>>, Ok(unwrap(wall.assignments)))}
    ELSE UNION {IF c.result.kind # "Ok"
                THEN {c}
                ELSE request_assignments(c, c.result.value) : c \in get_course_id(wall)}

\* Wall::get_assignment_ident: the assignment list is obtained first, the
\* key is looked up in the configuration after that.
get_assignment_ident(wall, key) ==
    {IF a.result.kind # "Ok"
     THEN a
     ELSE LET k == Config_assignment(wall.user_cfg, key)
          IN  IF k.kind # "Ok"
              THEN Step(a.wall, a.sent, k)
              ELSE Step(a.wall, a.sent, try_match_among(a.result.value, k.value.ident)) :
        a \in get_assignments(wall)}

\* Wall::get_assignment_id
get_assignment_id(wall, key) ==
    {IF i.result.kind # "Ok" THEN i ELSE Step(i.wall, i.sent, Ok(i.result.value.id)) :
        i \in get_assignment_ident(wall, key)}

\* Wall::get_assignment_name (src/model/src/lib.rs)
get_assignment_name(wall, key) ==
    {IF i.result.kind # "Ok" THEN i ELSE Step(i.wall, i.sent, Ok(i.result.value.name)) :
        i \in get_assignment_ident(wall, key)}

\* Wall::get_assignment_file_paths up to the iterator it returns: the key is
\* looked up, nothing is asked of the API.
get_assignment_file_paths(wall, key) ==
    LET k == Config_assignment(wall.user_cfg, key)
    IN  IF k.kind # "Ok" THEN Step(wall, <<>>, k) ELSE Step(wall, <<>>, Ok(k.value.include))


\* ------------------------------------------------------------------ submit
\* The number of lines standard input holds before it ends, and the number
\* of prompts the loop is followed for.
MaxInput == 2
MaxPrompts == 4

\* Lines as read_line returns them, newline included; the empty line is what
\* a read at the end of the input leaves in the buffer.
Lines ==
    {<<"y", "\n">>, <<"Y", "e", "s", "\n">>, <<"n", "\n">>, <<"N", "\n">>,
     <<" ", "y", "\n">>}
EndOfInput == <<>>

\* str::starts_with(&[char])
starts_with(line, chars) == Len(line) > 0 /\ line[1] \in chars

\* Variant: an empty answer counts as consent.
answer_DefaultYes(line) ==
    IF Len(line) = 0 \/ starts_with(line, {"y", "Y"})
    THEN "proceed"
    ELSE IF starts_with(line, {"n", "N"}) THEN "stop" ELSE "ask"

\* main: the test on the line read, inside the prompt loop.
answer(line) ==
    IF starts_with(line, {"y", "Y"})
    THEN "proceed"
    ELSE IF starts_with(line, {"n", "N"}) THEN "stop" ELSE "ask"

\* The file ids the server hands out.
FileIds == {7, 8}

\* An HTTP response: status class, Location header (absent, readable text,
\* or bytes to_str rejects) and the id in a JSON body, if the body has one.
Response(status, location, body) ==
    [kind |-> "Ok", status |-> status, location |-> location, body |-> body]
UploadResponses ==
    {Response("2xx", "absent", Some(id)) : id \in FileIds}
        \cup {Response("2xx", "absent", None),
              Response("3xx", "text", None),
              Response("3xx", "absent", None),
              Response("3xx", "opaque", None),
              Response("4xx", "absent", None),
              Reqwest}
FollowResponses ==
    {Response("2xx", "absent", Some(id)) : id \in FileIds}
        \cup {Response("2xx", "absent", None),
              Response("3xx", "text", Some(7)),
              Response("3xx", "text", None),
              Response("4xx", "absent", None),
              Reqwest}
CheckoutResponses ==
    {Response("2xx", "absent", None), Response("4xx", "absent", None), Reqwest}

\* The answer to the first request of an upload: where to send the file.
FileUploadEntry == [kind |-> "Ok", upload_url |-> "upload_url"]

\* What the server does with the requests of one upload, should they be sent.
UploadApi == [negotiate : {FileUploadEntry, Reqwest},
              upload : UploadResponses,
              follow : FollowResponses]

\* canvas::Error::NoRedirectLocation, canvas::Error::ToString(ToStrError)
NoRedirectLocation == [kind |-> "NoRedirectLocation"]
ToStrError == [kind |-> "ToString"]

\* What one HTTP request was: method, target and whether it carried the
\* bearer token.
Http(method, url, bearer) == [method |-> method, url |-> url, bearer |-> bearer]

\* send()?.error_for_status()?: a response that is not a client or server
\* error.
passed(resp) == resp.kind = "Ok" /\ resp.status # "4xx"

\* upload.json::<FileUploadResponse>()?.id
json_id(resp) == IF is_some(resp.body) THEN Ok(unwrap(resp.body)) ELSE Reqwest

\* Variant: the follow-up request is sent without the token.
submit_assignment_upload_NoBearer(course_id, assignment_id, payload_name, api) ==
    LET negotiate == Request("negotiate",
                             [course_id |-> course_id, assignment_id |-> assignment_id,
                              name |-> payload_name, bearer |-> TRUE],
                             api.negotiate)
    IN  IF api.negotiate.kind # "Ok"
        THEN [sent |-> <<negotiate>>, result |-> Reqwest]
        ELSE LET upload == Request("upload",
                                   Http("POST", api.negotiate.upload_url, FALSE),
                                   api.upload)
             IN  IF ~passed(api.upload)
                 THEN [sent |-> <<negotiate, upload>>, result |-> Reqwest]
                 ELSE IF api.upload.status = "3xx"
                 THEN IF api.upload.location = "absent"
                      THEN [sent |-> <<negotiate, upload>>, result |-> NoRedirectLocation]
                      ELSE IF api.upload.location = "opaque"
                      THEN [sent |-> <<negotiate, upload>>, result |-> ToStrError]
                      ELSE LET follow == Request("follow",
                                                 Http("GET", "redirect_url", FALSE),
                                                 api.follow)
                           IN  IF ~passed(api.follow)
                               THEN [sent |-> <<negotiate, upload, follow>>,
                                     result |-> Reqwest]
                               ELSE [sent |-> <<negotiate, upload, follow>>,
                                     result |-> json_id(api.follow)]
                 ELSE [sent |-> <<negotiate, upload>>, result |-> json_id(api.upload)]

\* canvas::submit_assignment_upload, on a client that follows no redirect by
\* itself.
submit_assignment_upload(course_id, assignment_id, payload_name, api) ==
    LET negotiate == Request("negotiate",
                             [course_id |-> course_id, assignment_id |-> assignment_id,
                              name |-> payload_name, bearer |-> TRUE],
                             api.negotiate)
    IN  IF api.negotiate.kind # "Ok"
        THEN [sent |-> <<negotiate>>, result |-> Reqwest]
        ELSE LET upload == Request("upload",
                                   Http("POST", api.negotiate.upload_url, FALSE),
                                   api.upload)
             IN  IF ~passed(api.upload)
                 THEN [sent |-> <<negotiate, upload>>, result |-> Reqwest]
                 ELSE IF api.upload.status = "3xx"
                 THEN IF api.upload.location = "absent"
                      THEN [sent |-> <<negotiate, upload>>, result |-> NoRedirectLocation]
                      ELSE IF api.upload.location = "opaque"
                      THEN [sent |-> <<negotiate, upload>>, result |-> ToStrError]
                      ELSE LET follow == Request("follow",
                                                 Http("GET", "redirect_url", TRUE),
                                                 api.follow)
                           IN  IF ~passed(api.follow)
                               THEN [sent |-> <<negotiate, upload, follow>>,
                                     result |-> Reqwest]
                               ELSE [sent |-> <<negotiate, upload, follow>>,
                                     result |-> json_id(api.follow)]
                 ELSE [sent |-> <<negotiate, upload>>, result |-> json_id(api.upload)]

\* canvas::submit_assignment_checkout
submit_assignment_checkout(course_id, assignment_id, ids, resp) ==
    [sent |-> <<Request("checkout",
                        [course_id |-> course_id, assignment_id |-> assignment_id,
                         file_ids |-> ids, bearer |-> TRUE],
                        resp)>>,
     result |-> IF passed(resp) THEN [kind |-> "Ok"] ELSE Reqwest]

\* WalkDir::new(dir).min_depth(1).max_depth(1): the entries of the directory
\* itself, in the order the file system lists them.
walk_top_level(files) ==
    {q \in [1..Cardinality(files) -> files] : \A i, j \in DOMAIN q : q[i] = q[j] => i = j}

\* Variant: a new id is put in front of the ones collected.
push_file_id_Front(ids, id) == <<id>> \o ids

\* upload_and_submit: file_ids.push(file_id)
push_file_id(ids, id) == Append(ids, id)

\* Variant: a failed upload is passed over and the loop goes on.
after_upload_SkipFailed(r) == "uploading"

\* upload_and_submit: the ? on submit_assignment_upload ends the function
\* with the error.
after_upload(r) == IF r.kind = "Ok" THEN "uploading" ELSE "error"

\* ---------------------------------------------------------- state machine
VARIABLES matches, partial, result, prev, calls

\* The directory the command runs in, the directories holding kerchief.toml,
\* the root found, and the position of the start of the submit command.
VARIABLES cwd, cfgAt, root, rpc

\* The project tree, the include list of the assignment, the scratch
\* directory, the position in stage_includes / main, the index of the next
\* include entry, and the lines printed.
VARIABLES fs, includes, scratch, pc, idx, printed

\* History kept for the properties: one record for each entry the loop went
\* through, the names written by the current run, and the names that lay in
\* the scratch directory when the current run started.
VARIABLES log, produced, stale

\* The Wall (configuration and the two cells), the requests sent to the API
\* so far, the last accessor call with what it returned, and the number of
\* accessor calls.
VARIABLES store, wire, ret, nacc

\* The submit command: the KEY argument, the lines read from standard input,
\* whether a read has met the end of the input, the number of prompts
\* printed, the course and assignment ids resolved, the scratch entries
\* still to upload, and the file ids collected.
VARIABLES key, consumed, eof, prompts, target, queue, file_ids

resolveVars == <<matches, partial, result, prev, calls>>
rootVars == <<cwd, cfgAt, root, rpc>>
stageVars == <<fs, includes, scratch, pc, idx, printed, log, produced, stale>>
wallVars == <<store, wire, ret, nacc>>
submitVars == <<key, consumed, eof, prompts, target, queue, file_ids>>
vars == <<resolveVars, rootVars, stageVars, wallVars, submitVars>>

\* No call has returned yet.
NoResult == [kind |-> "NoResult"]

\* The resolver before its first call.
ResolveIdle ==
    /\ matches = <<>>
    /\ partial = [name |-> None, id |-> None]
    /\ result = NoResult
    /\ prev = NoResult
    /\ calls = 0

\* The command started in the directory that holds kerchief.toml.
RootIdle ==
    /\ cwd = ProjectRoot
    /\ cfgAt = {ProjectRoot}
    /\ root = None
    /\ rpc = "start"

\* Nothing staged yet: the scratch directory does not exist.
NoScratch == [exists |-> FALSE, files |-> <<>>]
StageIdle ==
    /\ fs = FullTree
    /\ includes = <<>>
    /\ scratch = NoScratch
    /\ pc = "idle"
    /\ idx = 1
    /\ printed = <<>>
    /\ log = <<>>
    /\ produced = {}
    /\ stale = {}

\* No accessor has been called.
NoReturn == [op |-> "none", key |-> None, sent |-> <<>>, result |-> NoResult]

\* The configuration written by `kerchief init`, with the course named.
TemplateConfig ==
    [course |-> [name |-> Some("A"), id |-> None],
     assignment |-> ("1" :> [ident |-> [name |-> Some("A"), id |-> None],
                             include |-> <<>>])]

\* A Wall nobody has asked anything.
WallIdle ==
    /\ store = Wall_new(TemplateConfig)
    /\ wire = <<>>
    /\ ret = NoReturn
    /\ nacc = 0

\* The submit command before it starts.
SubmitIdle ==
    /\ key = "1"
    /\ consumed = <<>>
    /\ eof = FALSE
    /\ prompts = 0
    /\ target = [course_id |-> None, assignment_id |-> None]
    /\ queue = <<>>
    /\ file_ids = <<>>

Init ==
    /\ matches \in CandidateLists
    /\ partial \in ConfigIdentifier
    /\ result = NoResult
    /\ prev = NoResult
    /\ calls = 0
    /\ RootIdle
    /\ StageIdle
    /\ WallIdle
    /\ SubmitIdle

\* One call of try_match_among on the drawn inputs.  The candidate vector is
\* passed by value and the identifier by shared reference: the caller's data
\* is left as it was.
Resolve ==
    /\ calls < MaxCalls
    /\ result' = try_match_among(matches, partial)
    /\ prev' = result
    /\ calls' = calls + 1
    /\ UNCHANGED <<matches, partial>>
    /\ UNCHANGED <<rootVars, stageVars, wallVars, submitVars>>

Next == Resolve

Spec == Init /\ [][Next]_vars

\* ------------------------------------------------- project-root discovery
\* The directories of the full tree, from the file-system root down.
Directories == {Path(TRUE, <<>>), ProjectRoot, P_hw, P_sub}

InitRoot ==
    /\ cwd \in Directories
    /\ cfgAt \in SUBSET Directories
    /\ root = None
    /\ rpc = "start"
    /\ ResolveIdle
    /\ StageIdle
    /\ WallIdle
    /\ SubmitIdle

\* main: fs::File::open("kerchief.toml")? reads the configuration from the
\* current directory; the error ends the command.
OpenConfig ==
    /\ rpc = "start"
    /\ rpc' = IF cwd \in cfgAt THEN "configured" ELSE "failed"
    /\ UNCHANGED <<cwd, cfgAt, root>>
    /\ UNCHANGED <<resolveVars, stageVars, wallVars, submitVars>>

\* stage_includes: let root = find_root()?; env::set_current_dir(&root)?
FindRoot ==
    /\ rpc = "configured"
    /\ root' = Some(find_root(cwd).value)
    /\ cwd' = find_root(cwd).value
    /\ rpc' = "rooted"
    /\ UNCHANGED cfgAt
    /\ UNCHANGED <<resolveVars, stageVars, wallVars, submitVars>>

NextRoot == OpenConfig \/ FindRoot

SpecRoot == InitRoot /\ [][NextRoot]_vars

\* ---------------------------------------------------------- staging runs
InitStage ==
    /\ fs \in Trees
    /\ includes \in IncludeLists
    /\ scratch = NoScratch
    /\ pc = "idle"
    /\ idx = 1
    /\ printed = <<>>
    /\ log = <<>>
    /\ produced = {}
    /\ stale = {}
    /\ ResolveIdle
    /\ RootIdle
    /\ WallIdle
    /\ SubmitIdle

\* stage_includes up to the loop: the root is found and entered, the scratch
\* directory is removed and created again.
StageBegin ==
    /\ pc \in {"idle", "done"}
    /\ root' = Some(find_root(cwd).value)
    /\ cwd' = find_root(cwd).value
    /\ scratch' = reset_scratch(scratch)
    /\ stale' = DOMAIN scratch.files
    /\ produced' = {}
    /\ log' = <<>>
    /\ printed' = <<>>
    /\ idx' = 1
    /\ pc' = "loop"
    /\ UNCHANGED <<fs, includes, cfgAt, rpc>>
    /\ UNCHANGED <<resolveVars, wallVars, submitVars>>

\* One turn of the loop over get_assignment_file_paths: the entry's path is
\* resolved from the root, its options are parsed, and a resolved entry is
\* handed to apply_include_transforms with the options that parsed.
StageEntry ==
    /\ pc = "loop"
    /\ idx <= Len(includes)
    /\ LET entry == includes[idx]
           p == try_from_root(fs, cwd, unwrap(root), entry.path)
           opts == parse_options(entry.options)
           decision == stage_decision(p)
       IN  \/ /\ decision = "apply"
              /\ \E written \in apply_include_transforms(fs, cwd, p, flatten_options(opts)) :
                    /\ scratch' = [scratch EXCEPT !.files = written @@ scratch.files]
                    /\ produced' = produced \cup DOMAIN written
                    /\ log' = Append(log, [entry |-> entry, include |-> p, opts |-> opts,
                                           applied |-> TRUE, wrote |-> DOMAIN written])
              /\ idx' = idx + 1
              /\ pc' = "loop"
           \/ /\ decision # "apply"
              /\ log' = Append(log, [entry |-> entry, include |-> p, opts |-> opts,
                                     applied |-> FALSE, wrote |-> {}])
              /\ idx' = idx + 1
              /\ pc' = IF decision = "skip" THEN "loop" ELSE "failed"
              /\ UNCHANGED <<scratch, produced>>
    /\ UNCHANGED <<fs, includes, printed, stale>>
    /\ UNCHANGED <<resolveVars, rootVars, wallVars, submitVars>>

\* stage_includes returns the scratch directory.
StageReturn ==
    /\ pc = "loop"
    /\ idx > Len(includes)
    /\ pc' = "staged"
    /\ UNCHANGED <<fs, includes, scratch, idx, printed, log, produced, stale>>
    /\ UNCHANGED <<resolveVars, rootVars, wallVars, submitVars>>

\* main: the header line and print_items, one line for each entry of the
\* scratch directory.
Report ==
    /\ pc = "staged"
    /\ printed' = <<[kind |-> "Preparing", items |-> DOMAIN scratch.files]>>
    /\ pc' = "done"
    /\ UNCHANGED <<fs, includes, scratch, idx, log, produced, stale>>
    /\ UNCHANGED <<resolveVars, rootVars, wallVars, submitVars>>

\* Between two runs of the command the user takes the first entry out of
\* the include list.
EditConfig ==
    /\ pc = "done"
    /\ Len(includes) > 0
    /\ includes' = Tail(includes)
    /\ pc' = "idle"
    /\ UNCHANGED <<fs, scratch, idx, printed, log, produced, stale>>
    /\ UNCHANGED <<resolveVars, rootVars, wallVars, submitVars>>

NextStage == StageBegin \/ StageEntry \/ StageReturn \/ Report \/ EditConfig

SpecStage == InitStage /\ [][NextStage]_vars

\* -------------------------------------------------------- calls on a Wall
\* The four states of a configured identifier.
CourseIdents ==
    {[name |-> Some("A"), id |-> Some(1)],
     [name |-> Some("A"), id |-> None],
     [name |-> None, id |-> Some(2)],
     [name |-> None, id |-> None]}
AssignmentIdents ==
    {[name |-> Some("B"), id |-> None],
     [name |-> None, id |-> Some(1)]}

\* Configurations with the assignment key "1"; the key "2" is in none.
WallConfigs ==
    {[course |-> c, assignment |-> ("1" :> [ident |-> a, include |-> <<>>])] :
        c \in CourseIdents, a \in AssignmentIdents}

InitWall ==
    /\ store \in {Wall_new(user_cfg) : user_cfg \in WallConfigs}
    /\ wire = <<>>
    /\ ret = NoReturn
    /\ nacc = 0
    /\ ResolveIdle
    /\ RootIdle
    /\ StageIdle
    /\ SubmitIdle

\* The caller receives what the method returned; the Wall keeps the cells the
\* method filled and the requests it sent are on the wire.
Returns(op, k, s) ==
    /\ store' = s.wall
    /\ wire' = wire \o s.sent
    /\ ret' = [op |-> op, key |-> k, sent |-> s.sent, result |-> s.result]
    /\ nacc' = nacc + 1
    /\ UNCHANGED <<resolveVars, rootVars, stageVars, submitVars>>

GetCourseId ==
    /\ nacc < MaxAccess
    /\ \E s \in get_course_id(store) : Returns("get_course_id", None, s)

GetAssignmentId ==
    /\ nacc < MaxAccess
    /\ \E k \in Keys :
          \E s \in get_assignment_id(store, k) : Returns("get_assignment_id", Some(k), s)

GetAssignmentName ==
    /\ nacc < MaxAccess
    /\ \E k \in Keys :
          \E s \in get_assignment_name(store, k) : Returns("get_assignment_name", Some(k), s)

GetAssignmentFilePaths ==
    /\ nacc < MaxAccess
    /\ \E k \in Keys :
          \E s \in {get_assignment_file_paths(store, k)} :
              Returns("get_assignment_file_paths", Some(k), s)

\* Identifier::is_none on the course identifier of the configuration.
IsNone ==
    /\ nacc < MaxAccess
    /\ Returns("is_none", None,
               Step(store, <<>>, [kind |-> "Bool", value |-> is_none(store.user_cfg.course)]))

NextWall ==
    GetCourseId \/ GetAssignmentId \/ GetAssignmentName \/ GetAssignmentFilePaths \/ IsNone

SpecWall == InitWall /\ [][NextWall]_vars

\* ------------------------------------------------------ the submit command
\* Include lists of plain entries, and configurations that hold them under
\* the key "1": the course is named, or left out altogether.
SubmitEntries == {e \in IncludeEntry : e.options = {}}
SubmitLists == UNION {[1..n -> SubmitEntries] : n \in 0..MaxEntries}
SubmitCourses == {[name |-> Some("A"), id |-> None], [name |-> None, id |-> None]}
SubmitConfigs(list) ==
    {[course |-> c,
      assignment |-> ("1" :> [ident |-> [name |-> Some("B"), id |-> None],
                              include |-> list])] : c \in SubmitCourses}

\* main up to stage_includes: the configuration is parsed and wrapped in a
\* Wall, KEY is any of the keys.
InitSubmit ==
    /\ fs = FullTree
    /\ includes \in SubmitLists
    /\ key \in Keys
    /\ store \in {Wall_new(user_cfg) : user_cfg \in SubmitConfigs(includes)}
    /\ wire = <<>>
    /\ ret = NoReturn
    /\ nacc = 0
    /\ scratch = NoScratch
    /\ pc = "idle"
    /\ idx = 1
    /\ printed = <<>>
    /\ log = <<>>
    /\ produced = {}
    /\ stale = {}
    /\ consumed = <<>>
    /\ eof = FALSE
    /\ prompts = 0
    /\ target = [course_id |-> None, assignment_id |-> None]
    /\ queue = <<>>
    /\ file_ids = <<>>
    /\ ResolveIdle
    /\ RootIdle

\* What a call on the Wall leaves in ret.
Called(op, k, s) == [op |-> op, key |-> k, sent |-> s.sent, result |-> s.result]

\* stage_includes with a key the configuration lacks: the scratch directory
\* is reset, then get_assignment_file_paths(key, &root)? ends the command.
StageKeyMissing ==
    /\ pc = "idle"
    /\ \E r \in {get_assignment_file_paths(store, key)} :
           /\ r.result.kind # "Ok"
           /\ ret' = Called("get_assignment_file_paths", Some(key), r)
    /\ root' = Some(find_root(cwd).value)
    /\ cwd' = find_root(cwd).value
    /\ scratch' = reset_scratch(scratch)
    /\ pc' = "failed"
    /\ UNCHANGED <<fs, includes, idx, printed, log, produced, stale, cfgAt, rpc>>
    /\ UNCHANGED <<store, wire, nacc>>
    /\ UNCHANGED <<resolveVars, submitVars>>

\* stage_includes with a key of the configuration, up to the loop.
SubmitBegin ==
    /\ pc = "idle"
    /\ get_assignment_file_paths(store, key).result.kind = "Ok"
    /\ StageBegin

\* One turn of the prompt loop: the prompt is printed, a line is read, and
\* the line decides.  A read at the end of the input returns Ok(0) and
\* leaves the line empty.
Prompt ==
    /\ pc = "done"
    /\ prompts < MaxPrompts
    /\ \E line \in (IF eof \/ Len(consumed) >= MaxInput
                    THEN {EndOfInput}
                    ELSE Lines \cup {EndOfInput}) :
          /\ consumed' = IF line = EndOfInput THEN consumed ELSE Append(consumed, line)
          /\ eof' = (line = EndOfInput)
          /\ pc' = CASE answer(line) = "proceed" -> "confirmed"
                     [] answer(line) = "stop" -> "exit"
                     [] OTHER -> "done"
    /\ prompts' = prompts + 1
    /\ UNCHANGED <<key, target, queue, file_ids>>
    /\ UNCHANGED <<fs, includes, scratch, idx, printed, log, produced, stale>>
    /\ UNCHANGED <<resolveVars, rootVars, wallVars>>

\* upload_and_submit: let course_id = store.get_course_id()?
SubmitCourse ==
    /\ pc = "confirmed"
    /\ \E s \in get_course_id(store) :
              /\ store' = s.wall
              /\ wire' = wire \o s.sent
              /\ ret' = Called("get_course_id", None, s)
              /\ target' = IF s.result.kind = "Ok"
                           THEN [target EXCEPT !.course_id = Some(s.result.value)]
                           ELSE target
              /\ pc' = IF s.result.kind = "Ok" THEN "course" ELSE "error"
    /\ nacc' = nacc + 1
    /\ UNCHANGED <<key, consumed, eof, prompts, queue, file_ids>>
    /\ UNCHANGED <<fs, includes, scratch, idx, printed, log, produced, stale>>
    /\ UNCHANGED <<resolveVars, rootVars>>

\* upload_and_submit: let assignment_id = store.get_assignment_id(key)?
SubmitAssignment ==
    /\ pc = "course"
    /\ \E s \in get_assignment_id(store, key) :
              /\ store' = s.wall
              /\ wire' = wire \o s.sent
              /\ ret' = Called("get_assignment_id", Some(key), s)
              /\ target' = IF s.result.kind = "Ok"
                           THEN [target EXCEPT !.assignment_id = Some(s.result.value)]
                           ELSE target
              /\ pc' = IF s.result.kind = "Ok" THEN "assignment" ELSE "error"
    /\ nacc' = nacc + 1
    /\ UNCHANGED <<key, consumed, eof, prompts, queue, file_ids>>
    /\ UNCHANGED <<fs, includes, scratch, idx, printed, log, produced, stale>>
    /\ UNCHANGED <<resolveVars, rootVars>>

\* upload_and_submit: the walk over the scratch directory is set up.
WalkScratch ==
    /\ pc = "assignment"
    /\ queue' \in walk_top_level(DOMAIN scratch.files)
    /\ pc' = "uploading"
    /\ UNCHANGED <<key, consumed, eof, prompts, target, file_ids>>
    /\ UNCHANGED <<fs, includes, scratch, idx, printed, log, produced, stale>>
    /\ UNCHANGED <<resolveVars, rootVars, wallVars>>

\* One turn of the upload loop: the next entry is uploaded and its file id
\* kept; an error ends upload_and_submit.
Upload ==
    /\ pc = "uploading"
    /\ queue # <<>>
    /\ \E api \in UploadApi :
          \E u \in {submit_assignment_upload(unwrap(target.course_id),
                                              unwrap(target.assignment_id),
                                              Head(queue), api)} :
              /\ wire' = wire \o u.sent
              /\ ret' = Called("submit_assignment_upload", Some(Head(queue)), u)
              /\ file_ids' = IF u.result.kind = "Ok"
                             THEN push_file_id(file_ids, u.result.value)
                             ELSE file_ids
              /\ pc' = after_upload(u.result)
    /\ queue' = Tail(queue)
    /\ UNCHANGED <<store, nacc>>
    /\ UNCHANGED <<key, consumed, eof, prompts, target>>
    /\ UNCHANGED <<fs, includes, scratch, idx, printed, log, produced, stale>>
    /\ UNCHANGED <<resolveVars, rootVars>>

\* upload_and_submit after the loop: submit_assignment_checkout(..)?
Checkout ==
    /\ pc = "uploading"
    /\ queue = <<>>
    /\ \E resp \in CheckoutResponses :
          \E c \in {submit_assignment_checkout(unwrap(target.course_id),
                                                unwrap(target.assignment_id),
                                                file_ids, resp)} :
              /\ wire' = wire \o c.sent
              /\ ret' = Called("submit_assignment_checkout", None, c)
              /\ pc' = IF c.result.kind = "Ok" THEN "submitted" ELSE "error"
    /\ UNCHANGED <<store, nacc>>
    /\ UNCHANGED submitVars
    /\ UNCHANGED <<fs, includes, scratch, idx, printed, log, produced, stale>>
    /\ UNCHANGED <<resolveVars, rootVars>>

NextSubmit ==
    \/ StageKeyMissing \/ SubmitBegin \/ StageEntry \/ StageReturn \/ Report
    \/ Prompt \/ SubmitCourse \/ SubmitAssignment \/ WalkScratch \/ Upload \/ Checkout

SpecSubmit == InitSubmit /\ [][NextSubmit]_vars

\* ------------------------------------------------------------- properties
\* Vocabulary of the properties, stated on the inputs and not on the
\* intermediate vectors of the function.
Returned == calls > 0
HasName == is_some(partial.name)
HasId == is_some(partial.id)
GivenName == unwrap(partial.name)
GivenId == unwrap(partial.id)
Pos == 1..Len(matches)
IdPos == IF HasId THEN {k \in Pos : matches[k].id = GivenId} ELSE {}
NamePos == IF HasName THEN {k \in Pos : matches[k].name = GivenName} ELSE {}
FirstIdPos == CHOOSE k \in IdPos : \A j \in IdPos : k <= j
UniqueIds == \A j, k \in Pos : matches[j].id = matches[k].id => j = k
\* Number of occurrences of the pair e in the sequence v.
Occ(v, e) == Cardinality({k \in 1..Len(v) : v[k] = e})
\* The payload v holds exactly the candidates at the positions in P.
CarriesExactly(v, P) ==
    \A e \in Identifier : Occ(v, e) = Cardinality({k \in P : matches[k] = e})
GivenPair == [id |-> GivenId, name |-> GivenName]

\* C1: with a name and an id supplied, if the first candidate in list order
\* that has the given id has another name, the result is NameConflict.
C1_NameConflict ==
    (Returned /\ HasName /\ HasId /\ IdPos # {}
        /\ matches[FirstIdPos].name # GivenName)
    => result.kind = "NameConflict"

\* C1 happens: the id match has another name while some other candidate
\* carries the given name.
C1_Witness ==
    /\ Returned /\ HasName /\ HasId /\ IdPos # {}
    /\ matches[FirstIdPos].name # GivenName
    /\ NamePos # {}
    /\ result.kind = "NameConflict"

\* C2: with a name and an id supplied and no candidate having the given id,
\* the result is IdConflict when some candidate has the given name and
\* NoSuchIdentifier when none has; no candidate is returned.
C2_NoIdMatch ==
    (Returned /\ HasName /\ HasId /\ IdPos = {})
    => result.kind = (IF NamePos # {} THEN "IdConflict" ELSE "NoSuchIdentifier")

\* C2 happens: exactly one candidate has the given name, none the given id.
C2_Witness ==
    /\ Returned /\ HasName /\ HasId /\ IdPos = {}
    /\ Cardinality(NamePos) = 1
    /\ result.kind = "IdConflict"

\* C3: with a name and an id supplied, on a list with unique ids holding a
\* candidate with the given id and the given name, that candidate is returned.
C3_BothMatch ==
    (Returned /\ HasName /\ HasId /\ UniqueIds)
    => \A k \in Pos :
          (matches[k].id = GivenId /\ matches[k].name = GivenName)
          => (result.kind = "Ok" /\ result.value = matches[k])

\* C3 happens: the scenario [{id 1, name A}] with {name A, id 1}.
C3_Witness ==
    /\ Returned
    /\ matches = <<[id |-> 1, name |-> "A"]>>
    /\ partial = [name |-> Some("A"), id |-> Some(1)]
    /\ result = Ok([id |-> 1, name |-> "A"])

\* The scenario of C4: candidates [{id 1, name A}, {id 2, name B}] and the
\* identifier {name A, id 2}.
C4_Scenario ==
    /\ Returned
    /\ matches = <<[id |-> 1, name |-> "A"], [id |-> 2, name |-> "B"]>>
    /\ partial = [name |-> Some("A"), id |-> Some(2)]

\* C4 as stated: the scenario returns IdConflict.
C4_Original == C4_Scenario => result.kind = "IdConflict"

\* C4 amended: the scenario returns NameConflict, carrying the identifier
\* {id 2, name A} as supplied and the candidate {id 2, name B} that has the
\* given id.
C4_ScenarioNameConflict ==
    C4_Scenario
    => result = [kind |-> "NameConflict",
                 user_provided |-> [id |-> 2, name |-> "A"],
                 match_id_not_name |-> <<[id |-> 2, name |-> "B"]>>]

\* C4 happens: the scenario has been resolved.
C4_Witness == C4_Scenario /\ result.kind = "NameConflict"

\* C5: with a name only, no candidate of exactly that name gives NoSuchName,
\* exactly one gives that candidate, and two or more give UnderSpecified
\* whose alternatives are all the candidates of that name.
C5_NameOnly ==
    (Returned /\ HasName /\ ~HasId)
    => /\ NamePos = {} => result.kind = "NoSuchName"
       /\ \A k \in NamePos :
             NamePos = {k} => (result.kind = "Ok" /\ result.value = matches[k])
       /\ Cardinality(NamePos) >= 2
          => (result.kind = "UnderSpecified"
              /\ CarriesExactly(result.alternatives, NamePos))

\* C5 happens: two candidates have the given name and a third has the same
\* name in the other case.
C5_Witness ==
    /\ Returned /\ HasName /\ ~HasId
    /\ Cardinality(NamePos) = 2
    /\ \E k \in Pos : matches[k].name # GivenName
                      /\ to_lowercase(matches[k].name) = to_lowercase(GivenName)
    /\ result.kind = "UnderSpecified"
    /\ Len(result.alternatives) = 2

\* C6: with an id only, exactly one candidate of that id is returned whatever
\* the names in the list, and no candidate of that id gives NoSuchId.
C6_IdOnly ==
    (Returned /\ ~HasName /\ HasId)
    => /\ IdPos = {} => result.kind = "NoSuchId"
       /\ \A k \in IdPos :
             IdPos = {k} => (result.kind = "Ok" /\ result.value = matches[k])

\* C6 happens: the only candidate of the given id is not the first of the
\* list and shares its name with another candidate.
C6_Witness ==
    /\ Returned /\ ~HasName /\ HasId
    /\ Cardinality(IdPos) = 1
    /\ 1 \notin IdPos
    /\ \E k \in IdPos : matches[1].name = matches[k].name
                        /\ result = Ok(matches[k])

\* C7: with neither a name nor an id the result is NotSpecified for every
\* candidate list.
C7_NotSpecified ==
    (Returned /\ ~HasName /\ ~HasId) => result.kind = "NotSpecified"

\* C7 happens: the list has exactly one candidate and none is picked.
C7_Witness ==
    /\ Returned /\ ~HasName /\ ~HasId
    /\ Len(matches) = 1
    /\ result.kind = "NotSpecified"

\* The fields each outcome carries.
OutcomeFields ==
    [Ok |-> {"kind", "value"},
     NotSpecified |-> {"kind", "alternatives"},
     UnderSpecified |-> {"kind", "user_provided", "alternatives"},
     NameConflict |-> {"kind", "user_provided", "match_id_not_name"},
     IdConflict |-> {"kind", "user_provided", "match_name_not_id"},
     NoSuchId |-> {"kind", "user_provided", "alternatives"},
     NoSuchName |-> {"kind", "user_provided", "alternatives"},
     NoSuchIdentifier |-> {"kind", "user_provided", "alternatives"}]

C9_NoMisResolution ==
    (Returned /\ result.kind = "Ok")
    => /\ \E k \in Pos : matches[k] = result.value
       /\ HasId => result.value.id = GivenId
       /\ HasName => result.value.name = GivenName
       /\ (HasName /\ ~HasId) => Cardinality(NamePos) = 1

\* C9 happens: a name alone selected a candidate that is not the first of
\* the list.
C9_Witness ==
    /\ Returned /\ HasName /\ ~HasId
    /\ Len(matches) >= 2
    /\ result.kind = "Ok"
    /\ result.value # matches[1]

\* C10: every error carries the supplied values and the relevant candidates:
\* the whole list in order for NotSpecified, NoSuchId, NoSuchName and
\* NoSuchIdentifier, the candidates of the given name for UnderSpecified and
\* IdConflict, the candidates of the given id for NameConflict.
C10_ErrorPayloads ==
    Returned =>
    /\ result.kind = "NotSpecified" => result.alternatives = matches
    /\ result.kind = "NoSuchId"
       => (result.user_provided = GivenId /\ result.alternatives = matches)
    /\ result.kind = "NoSuchName"
       => (result.user_provided = GivenName /\ result.alternatives = matches)
    /\ result.kind = "NoSuchIdentifier"
       => (result.user_provided = GivenPair /\ result.alternatives = matches)
    /\ result.kind = "UnderSpecified"
       => (result.user_provided = GivenName
           /\ CarriesExactly(result.alternatives, NamePos))
    /\ result.kind = "IdConflict"
       => (result.user_provided = GivenPair
           /\ CarriesExactly(result.match_name_not_id, NamePos))
    /\ result.kind = "NameConflict"
       => (result.user_provided = GivenPair
           /\ CarriesExactly(result.match_id_not_name, IdPos))

\* C10 happens: a NameConflict on a list with two candidates of the given
\* id, the second of which has the given name.
C10_Witness ==
    /\ Returned
    /\ result.kind = "NameConflict"
    /\ Cardinality(IdPos) = 2
    /\ IdPos \cap NamePos # {}
    /\ Len(result.match_id_not_name) = 2

\* ------------------------------------------- properties of include staging
\* Vocabulary, stated on the project tree itself.
StageDone == pc \in {"staged", "done"}
NodeAt(q) == IF q \in DOMAIN fs THEN fs[q] ELSE Absent
Followed(q) ==
    IF NodeAt(q).kind = "symlink" THEN NodeAt(NodeAt(q).target) ELSE NodeAt(q)
\* The place an entry's path denotes: under the root if relative, as given
\* if absolute.
Checked(e) ==
    IF e.path.abs THEN e.path ELSE Path(TRUE, unwrap(root).comps \o e.path.comps)
KindOf(e) == Followed(Checked(e)).kind
Resolves(e) == KindOf(e) \in {"file", "dir"}
BaseName(e) == render(e.path.comps[Len(e.path.comps)])
StemName(e) == e.path.comps[Len(e.path.comps)].stem
\* What exists strictly below the place of an entry.
Below(e) ==
    {q \in DOMAIN fs :
        /\ Len(q.comps) > Len(Checked(e).comps)
        /\ SubSeq(q.comps, 1, Len(Checked(e).comps)) = Checked(e).comps
        /\ fs[q].kind # "absent"}
\* The paths of the tree below hw, relative to hw.
RelativeName ==
    (P_f :> "f.txt") @@ (P_ln :> "ln") @@ (P_sub :> "sub") @@ (P_g :> "sub/g.txt")
SingleEntry == StageDone /\ Len(includes) = 1

\* C11: a relative include path is checked under the root and an absolute
\* one as given; the result is File for a regular file, Dir for a directory
\* and otherwise NotPresent with the path that was checked; no IncludePath
\* is made for a path that does not exist.
C11_ResolveInclude ==
    \A i \in DOMAIN log :
        LET e == log[i].entry
            r == log[i].include
        IN  /\ KindOf(e) = "file" => r.kind = "File"
            /\ KindOf(e) = "dir" => r.kind = "Dir"
            /\ ~Resolves(e) => r = NotPresent(Checked(e))
            /\ r.kind \in {"File", "Dir"} => NodeAt(Checked(e)).kind # "absent"

\* C11 happens: one run resolved an absolute path to a directory and found
\* a relative path missing.
C11_Witness ==
    \E i, j \in DOMAIN log :
        /\ log[i].entry.path.abs /\ log[i].include.kind = "Dir"
        /\ ~log[j].entry.path.abs /\ log[j].include.kind = "NotPresent"

\* The directories from the current one upward that hold kerchief.toml, and
\* the nearest of them.
Holders ==
    {a \in cfgAt : /\ Len(a.comps) <= Len(cwd.comps)
                   /\ SubSeq(cwd.comps, 1, Len(a.comps)) = a.comps}
Nearest == CHOOSE a \in Holders : \A b \in Holders : Len(b.comps) <= Len(a.comps)

\* C12: root discovery walks from the current directory upward to the first
\* directory that holds kerchief.toml and returns it; with no such directory
\* the command fails.
C12_Original ==
    rpc \in {"failed", "rooted"}
    => IF Holders # {}
       THEN rpc = "rooted" /\ root = Some(Nearest)
       ELSE rpc = "failed"

\* C13: every entry whose path resolved is staged, wherever it stands among
\* entries that did not resolve; an unresolved entry writes nothing and does
\* not make stage_includes fail.
C13_PartialFailure ==
    /\ pc # "failed"
    /\ StageDone =>
        /\ Len(log) = Len(includes)
        /\ \A i \in DOMAIN log :
              /\ log[i].entry = includes[i]
              /\ Resolves(includes[i])
                 => (log[i].applied /\ log[i].wrote \subseteq DOMAIN scratch.files)
              /\ KindOf(includes[i]) = "file" => log[i].wrote # {}
              /\ ~Resolves(includes[i]) => (~log[i].applied /\ log[i].wrote = {})
        /\ (\A i \in DOMAIN log : ~Resolves(includes[i])) => DOMAIN scratch.files = {}

\* C13 happens: an entry that did not resolve stands before a file that was
\* staged.
C13_Witness ==
    /\ StageDone
    /\ Len(includes) = 2
    /\ ~Resolves(includes[1])
    /\ KindOf(includes[2]) = "file"
    /\ log[2].wrote # {}
    /\ log[2].wrote \subseteq DOMAIN scratch.files

\* C14: for every entry whose path did not resolve a message with its
\* NotPresent error has been printed.
C14_Original ==
    pc = "done"
    => \A i \in DOMAIN log :
          log[i].include.kind = "NotPresent"
          => \E m \in DOMAIN printed :
                /\ printed[m].kind = "IncludeError"
                /\ printed[m].error = log[i].include

\* C15: each option string is parsed on its own, "zip" to Zip and any other
\* to an Unexpected error with that string; an unrecognized option neither
\* keeps the path from being staged nor cancels a sibling "zip".
C15_Options ==
    \A i \in DOMAIN log :
        LET e == log[i].entry
        IN  /\ \A string \in e.options :
                  IF string = "zip"
                  THEN [kind |-> "Ok", value |-> "Zip"] \in log[i].opts
                  ELSE [kind |-> "Unexpected", value |-> string] \in log[i].opts
            /\ Cardinality(log[i].opts) = Cardinality(e.options)
            /\ Resolves(e) => log[i].applied
            /\ (Resolves(e) /\ "zip" \in e.options)
               => /\ log[i].wrote # {}
                  /\ \A n \in log[i].wrote \cap DOMAIN scratch.files :
                        scratch.files[n].type = "zip"
            /\ (Resolves(e) /\ "zip" \notin e.options)
               => \A n \in log[i].wrote \cap DOMAIN scratch.files :
                     scratch.files[n].type = "file"

\* C15 happens: a file with the options zip and Zip was staged as an archive.
C15_Witness ==
    \E i \in DOMAIN log :
        /\ log[i].entry.options = {"zip", "Zip"}
        /\ KindOf(log[i].entry) = "file"
        /\ [kind |-> "Unexpected", value |-> "Zip"] \in log[i].opts
        /\ \E n \in log[i].wrote :
              n \in DOMAIN scratch.files /\ scratch.files[n].type = "zip"

C17_FileCopy ==
    (SingleEntry /\ KindOf(includes[1]) = "file" /\ includes[1].options = {})
    => /\ DOMAIN scratch.files = {BaseName(includes[1])}
       /\ scratch.files[BaseName(includes[1])]
            = PlainFile(Followed(Checked(includes[1])).data)

\* C17 happens: a.txt was staged alone without options.
C17_Witness ==
    /\ pc = "done"
    /\ Len(includes) = 1
    /\ includes[1] = [path |-> Path(FALSE, <<N_a>>), options |-> {}]
    /\ "a.txt" \in DOMAIN scratch.files
    /\ Len(scratch.files["a.txt"].data) = MaxContent

\* C18: one regular file with the zip option leaves exactly one archive,
\* named after the file with the suffix .zip, whose only entry has the file
\* name and all the bytes of the source.
C18_Original ==
    (SingleEntry /\ KindOf(includes[1]) = "file" /\ includes[1].options = {"zip"})
    => \E n \in {BaseName(includes[1]) \o ".zip", StemName(includes[1]) \o ".zip"} :
          /\ DOMAIN scratch.files = {n}
          /\ scratch.files[n]
               = Archive({FileEntry(BaseName(includes[1]),
                                    Followed(Checked(includes[1])).data)})

C20_Original ==
    (SingleEntry /\ KindOf(includes[1]) = "dir" /\ includes[1].options = {})
    => \A q \in {x \in Below(includes[1]) : fs[x].kind = "file"} :
          /\ render(q.comps[Len(q.comps)]) \in DOMAIN scratch.files
          /\ scratch.files[render(q.comps[Len(q.comps)])] = PlainFile(fs[q].data)

\* ------------------------------------------------- properties of the Wall
Answered(r) == r.answer.kind = "Ok"
Asked(kind) == {i \in DOMAIN wire : wire[i].kind = kind}
Obtained(kind) == {i \in Asked(kind) : Answered(wire[i])}
KeyOps == {"get_assignment_file_paths", "get_assignment_id", "get_assignment_name"}
AssignmentOps == {"get_assignment_id", "get_assignment_name"}
Offline == {"none", "is_none", "get_assignment_file_paths"}
CellOf(kind) == IF kind = "courses" THEN store.courses ELSE store.assignments
\* The cell of a list holds exactly what the answered request delivered.
Holds(kind) ==
    /\ is_some(CellOf(kind)) <=> Obtained(kind) # {}
    /\ \A i \in Obtained(kind) : unwrap(CellOf(kind)) = wire[i].answer.value

\* C21, as stated: over any sequence of accessor calls each list is
\* requested from the API at most once, no call that needs no list sends a
\* request, and the cached list is the one the API delivered.
C21_Original ==
    /\ Cardinality(Asked("courses")) <= 1
    /\ Cardinality(Asked("assignments")) <= 1
    /\ ret.op \in Offline => ret.sent = <<>>
    /\ Holds("courses") /\ Holds("assignments")

\* C21, amended: a list is requested again only after every earlier request
\* for it failed, so at most one request for each list is answered and none
\* follows it; calls that need no list send nothing; the cell holds exactly
\* the list the answered request delivered, for the rest of the run.
C21_Memoized ==
    /\ \A kind \in {"courses", "assignments"} :
          /\ \A i, j \in Asked(kind) : i < j => ~Answered(wire[i])
          /\ Holds(kind)
    /\ ret.op \in Offline => ret.sent = <<>>
    /\ nacc = 0 => wire = <<>>

\* C21 happens: the course list was asked for twice, the first request
\* failed, and a later get_course_id was served from the cell.
C21_Witness ==
    /\ \E i, j \in Asked("courses") : i < j /\ ~Answered(wire[i]) /\ Answered(wire[j])
    /\ ret.op = "get_course_id" /\ ret.sent = <<>> /\ ret.result.kind = "Ok"

\* C24, as stated: an operation given a key the configuration lacks returns
\* NoSuchAssignmentKey and has sent no request.
C24_Original ==
    (ret.op \in KeyOps /\ unwrap(ret.key) \notin DOMAIN store.user_cfg.assignment)
        => /\ ret.result = NoSuchAssignmentKey(unwrap(ret.key))
           /\ ret.sent = <<>>

\* C27, as stated: is_none answers true exactly when read() gives None.
C27_Original ==
    ret.op = "is_none"
        => (ret.result.value <=> read(store.user_cfg.course).tag = "None")

\* C28: every request for the assignment list follows an answered request
\* for the course list and names the course the configuration resolves to;
\* a filled assignment cell implies a filled course cell; an assignment
\* accessor that finds the course list unobtainable or the course
\* unresolvable returns that error, and then no assignment request was ever
\* sent and the assignment cell is empty.
CourseMatch == try_match_among(unwrap(store.courses), store.user_cfg.course)
C28_CourseFirst ==
    /\ \A i \in Asked("assignments") :
          /\ \E j \in Obtained("courses") : j < i
          /\ CourseMatch.kind = "Ok"
          /\ wire[i].args = <<CourseMatch.value.id>>
    /\ is_some(store.assignments) => is_some(store.courses)
    /\ (ret.op \in AssignmentOps /\ ~is_some(store.courses))
          => /\ ret.result = Reqwest
             /\ Asked("assignments") = {}
             /\ ~is_some(store.assignments)
    /\ (ret.op \in AssignmentOps /\ is_some(store.courses) /\ CourseMatch.kind # "Ok")
          => /\ ret.result = CourseMatch
             /\ Asked("assignments") = {}
             /\ ~is_some(store.assignments)

\* C28 happens: the course list is cached, the course does not resolve, and
\* an assignment accessor returned the resolution error of the course.
C28_Witness ==
    /\ ret.op \in AssignmentOps
    /\ is_some(store.courses)
    /\ CourseMatch.kind # "Ok"
    /\ ret.result = CourseMatch

\* C26: with several candidates of the given id, the first of them in list
\* order decides: an id-only identifier returns it, a name+id identifier
\* returns it when it has the given name and reports NameConflict otherwise,
\* whatever the later candidates of that id are called.
C26_FirstDuplicate ==
    (Returned /\ HasId /\ IdPos # {})
        => LET first == matches[FirstIdPos]
           IN  IF HasName /\ first.name # GivenName
               THEN result.kind = "NameConflict"
               ELSE result = Ok(first)

\* C26 happens: the first candidate with the id has another name, a later
\* one with the same id has the given name, and NameConflict was returned.
C26_Witness ==
    /\ Returned /\ HasId /\ HasName /\ IdPos # {}
    /\ matches[FirstIdPos].name # GivenName
    /\ \E k \in IdPos : matches[k].name = GivenName
    /\ result.kind = "NameConflict"

\* ---------------------------------------- properties of the submit command
UploadKinds == {"negotiate", "upload", "follow"}
ApiPhases == {"course", "assignment", "uploading", "submitted", "error"}
Redirected(r) == passed(r.answer) /\ r.answer.status = "3xx"
\* The request whose response body gave the file id of an upload.
Delivers(r) ==
    \/ r.kind = "upload" /\ passed(r.answer) /\ ~Redirected(r) /\ is_some(r.answer.body)
    \/ r.kind = "follow" /\ passed(r.answer) /\ is_some(r.answer.body)
\* The file ids the uploads returned, in the order of the uploads.
Delivered ==
    LET d == SelectSeq(wire, Delivers)
    IN  [i \in 1..Len(d) |-> unwrap(d[i].answer.body)]
Negotiated == {wire[i].args.name : i \in Asked("negotiate")}
\* A request that made the call it belongs to return an error.
Failed(r) ==
    CASE r.kind \in {"courses", "assignments", "negotiate"} -> r.answer.kind # "Ok"
      [] r.kind = "upload" ->
            \/ ~passed(r.answer)
            \/ Redirected(r) /\ r.answer.location # "text"
            \/ ~Redirected(r) /\ ~is_some(r.answer.body)
      [] r.kind = "follow" -> ~passed(r.answer) \/ ~is_some(r.answer.body)
      [] r.kind = "checkout" -> ~passed(r.answer)
LastLine == consumed[Len(consumed)]

C23_FatalErrors ==
    \A i \in DOMAIN wire : Failed(wire[i]) => (i = Len(wire) /\ pc = "error")

\* C23 happens: one file went up, the upload of the next failed, the command
\* ended with the error.
C23_Witness ==
    /\ pc = "error"
    /\ Len(Delivered) >= 1
    /\ wire[Len(wire)].kind \in UploadKinds
    /\ Failed(wire[Len(wire)])

\* C25: an upload response that redirects with a readable Location is
\* followed by exactly one GET carrying the bearer token; a follow-up request
\* is only ever sent right after such a response, never after another
\* follow-up; the file id is the one in the follow-up response, also when
\* that response redirects again; a redirect without Location returns
\* NoRedirectLocation and no id.
C25_OneRedirect ==
    /\ \A i \in Asked("upload") :
          (Redirected(wire[i]) /\ wire[i].answer.location = "text")
              => /\ i < Len(wire)
                 /\ wire[i + 1].kind = "follow"
                 /\ wire[i + 1].args = Http("GET", "redirect_url", TRUE)
    /\ \A i \in Asked("follow") :
          /\ i > 1
          /\ wire[i - 1].kind = "upload"
          /\ Redirected(wire[i - 1])
          /\ wire[i - 1].answer.location = "text"
    /\ ret.op = "submit_assignment_upload"
          => LET last == ret.sent[Len(ret.sent)]
             IN  /\ (last.kind = "follow" /\ passed(last.answer))
                        => IF is_some(last.answer.body)
                           THEN ret.result = Ok(unwrap(last.answer.body))
                           ELSE ret.result.kind # "Ok"
                 /\ (last.kind = "upload" /\ Redirected(last)
                        /\ last.answer.location = "absent")
                        => ret.result = NoRedirectLocation

\* C25 happens: the follow-up response was itself a redirect and its body
\* gave the file id.
C25_Witness ==
    /\ ret.op = "submit_assignment_upload"
    /\ ret.sent[Len(ret.sent)].kind = "follow"
    /\ Redirected(ret.sent[Len(ret.sent)])
    /\ ret.result.kind = "Ok"

\* C29: requests are on the wire only if the last line read starts with y or
\* Y; after a line starting with n or N the command has ended and nothing
\* was sent; while staging, reporting and asking nothing is sent.
C29_Gate ==
    /\ wire # <<>> => (consumed # <<>> /\ LastLine[1] \in {"y", "Y"})
    /\ (consumed # <<>> /\ LastLine[1] \in {"n", "N"}) => (pc = "exit" /\ wire = <<>>)
    /\ pc \in {"idle", "loop", "staged", "done", "failed", "exit"} => wire = <<>>

\* C29 happens: a line that is no answer was read, then a yes, and requests
\* went out.
C29_Witness ==
    /\ Len(consumed) = 2
    /\ consumed[1][1] \notin {"y", "Y", "n", "N"}
    /\ wire # <<>>

\* C30, as stated: the loop ends for every input.  One turn prints one prompt
\* and reads one line, and a read at the end of the input changes nothing, so
\* a loop that ends on an input of n lines has ended by the read that meets
\* the end: it prints at most n + 1 prompts.
C30_Original == prompts <= Len(consumed) + 1

====
